---- MODULE Spec2Model ----
(***************************************************************************)
(* pdfo: a PDF compression command line tool (pdfo.py) and the version     *)
(* bump script of its manifest (scripts/bump_version.py).                  *)
(*                                                                         *)
(* Spec      one run of pdfo.py, from click's argument parsing to exit.    *)
(* BumpSpec  one run of scripts/bump_version.py.                           *)
(*                                                                         *)
(* File names are sequences of tokens (one token per character, the fixed  *)
(* suffix "_compressed" being one token), so that pathlib's stem / suffix  *)
(* split and the lower-casing of the extension are computed, not assumed.  *)
(* A manifest is a sequence of tokens too: "nl" (newline), "sp" (a blank), *)
(* "x" (any other character) and version tokens standing for the text      *)
(* version = "X.Y.Z".                                                      *)
(***************************************************************************)
EXTENDS Integers, Sequences, FiniteSets, TLC

VARIABLES
    \* ---- pdfo.py ----
    input_file,   \* argument INPUT_FILE (a path)
    arg_output,   \* option -o as given, NoPath when absent
    output,       \* parameter output of main: the option, reassigned at line 118
    quality,      \* option -q
    force,        \* flag -f
    no_gs,        \* flag --no-gs
    fs,           \* the file system: path -> content
    fs0,          \* the file system when the process started (never written)
    pc,           \* position of the run in main
    gs_present,   \* result of has_ghostscript(), FALSE before the probe
    use_gs,       \* local use_gs of main
    input_size,   \* local input_size of main (line 132)
    output_size,  \* local output_size of main
    gs_state,     \* the Ghostscript backend: Idle, Running, Succeeded, Failed
    pypdf_state,  \* the pypdf backend: Idle, Running, Succeeded, Failed
    gs_runs,      \* number of times the gs subprocess was started
    pypdf_runs,   \* number of times compress_with_pypdf was entered
    gs_cmd,       \* the command line handed to subprocess.run, NoCmd before
    raised,       \* the exception in flight or handled, "" when none
    stdout,       \* lines echoed to the output stream
    stderr,       \* lines echoed to the error stream
    exit_code,    \* the process exit code, -1 while running
    \* ---- scripts/bump_version.py ----
    b_text,       \* content of the manifest file
    b_text0,      \* content of the manifest file when the script started
    b_bump,       \* option --bump, "" when absent
    b_current,    \* flag --current
    b_pc,         \* position of the run in main
    b_found,      \* local current of main, <<>> before read_version
    b_stdout,     \* lines printed
    b_raised,     \* the uncaught exception, "" when none
    b_exit        \* exit code, -1 while running

pdfoVars == <<input_file, arg_output, output, quality, force, no_gs, fs, fs0, pc, gs_present,
              use_gs, input_size, output_size, gs_state, pypdf_state, gs_runs,
              pypdf_runs, gs_cmd, raised, stdout, stderr, exit_code>>

bumpVars == <<b_text, b_text0, b_bump, b_current, b_pc, b_found, b_stdout,
              b_raised, b_exit>>

vars == <<pdfoVars, bumpVars>>

(***************************************************************************)
(* Bounds.                                                                 *)
(***************************************************************************)
\* file sizes range over 0..MaxSize
MaxSize == 2
\* quality levels range over (1 - QSlack)..(4 + QSlack)
QSlack == 1
\* version components of the manifest range over 0..MaxVer
MaxVer == 1
\* manifests hold at most MaxText tokens
MaxText == 4

(***************************************************************************)
(* Paths and pathlib.                                                      *)
(***************************************************************************)
NoPath == [dir |-> "", name |-> <<>>]

Lower(c) ==
    CASE c = "P" -> "p"
      [] c = "D" -> "d"
      [] c = "F" -> "f"
      [] c = "T" -> "t"
      [] c = "X" -> "x"
      [] OTHER -> c

LowerSeq(s) == [i \in 1..Len(s) |-> Lower(s[i])]

\* str.rfind("."), 1-based, 0 when there is no dot
RFindDot(name) ==
    LET dots == {i \in 1..Len(name) : name[i] = "."}
    IN  IF dots = {} THEN 0 ELSE CHOOSE i \in dots : \A j \in dots : j <= i

\* PurePath.suffix: the last dot-separated part, unless the dot leads or ends the name
Suffix(name) ==
    LET i == RFindDot(name)
    IN  IF 1 < i /\ i < Len(name) THEN SubSeq(name, i, Len(name)) ELSE <<>>

\* PurePath.stem
Stem(name) ==
    LET i == RFindDot(name)
    IN  IF 1 < i /\ i < Len(name) THEN SubSeq(name, 1, i - 1) ELSE name

DotPdf == <<".", "p", "d", "f">>

\* line 113: input_file.suffix.lower() == ".pdf"
IsPdf(path) == LowerSeq(Suffix(path.name)) = DotPdf

DefaultOutputFixedExt(path) ==
    [dir |-> path.dir, name |-> Stem(path.name) \o <<"_compressed">> \o DotPdf]

\* line 118: input_file.parent / f"{stem}_compressed{suffix}"
DefaultOutput(path) ==
    [dir |-> path.dir, name |-> Stem(path.name) \o <<"_compressed">> \o Suffix(path.name)]

(***************************************************************************)
(* Files.                                                                  *)
(***************************************************************************)
NoFile == [by |-> "absent", size |-> 0]
Orig(s) == [by |-> "orig", size |-> s]
Partial == [by |-> "partial", size |-> 0]

InputNames ==
    { <<"a", ".", "p", "d", "f">>,
      <<"a", ".", "P", "D", "F">>,
      <<"a", ".", "b", ".", "p", "d", "f">>,
      <<".", "p", "d", "f">>,
      <<"a", ".", "t", "x", "t">>,
      <<"a">> }

Elsewhere == [dir |-> "d2", name |-> <<"o", "u", "t", ".", "p", "d", "f">>]

Qualities == (1 - QSlack)..(4 + QSlack)

Exists(path) == fs[path] # NoFile

(***************************************************************************)
(* The Ghostscript command line.                                           *)
(***************************************************************************)
NoCmd == [preset |-> "", resolution |-> 0, infile |-> NoPath, outfile |-> NoPath]

PresetTwoTier(q) == IF q = 1 THEN "printer" ELSE "ebook"

\* lines 17-24: quality_settings.get(quality, "ebook")
Preset(q) ==
    CASE q = 1 -> "printer"
      [] q = 2 -> "ebook"
      [] q = 3 -> "screen"
      [] q = 4 -> "screen"
      [] OTHER -> "ebook"

\* line 39
ImageResolution(q) == IF q >= 3 THEN 150 ELSE 200

\* lines 26-42
GsCommand(inp, out, q) ==
    [preset |-> Preset(q), resolution |-> ImageResolution(q), infile |-> inp, outfile |-> out]

(***************************************************************************)
(* pdfo.py: main.                                                          *)
(***************************************************************************)
PdfoInit ==
    /\ \E n \in InputNames, cin \in {NoFile} \cup {Orig(s) : s \in 0..MaxSize},
          cdef \in {NoFile, Orig(1)}, cels \in {NoFile, Orig(1)} :
          LET inp == [dir |-> "d1", name |-> n]
              files == [p \in {inp, DefaultOutput(inp), Elsewhere} |->
                          IF p = inp THEN cin
                          ELSE IF p = Elsewhere THEN cels ELSE cdef]
          IN  /\ input_file = inp
              /\ arg_output \in {NoPath, inp, Elsewhere}
              /\ output = arg_output
              /\ fs = files
              /\ fs0 = files
    /\ quality \in Qualities
    /\ force \in BOOLEAN
    /\ no_gs \in BOOLEAN
    /\ pc = "click"
    /\ gs_present = FALSE
    /\ use_gs = FALSE
    /\ input_size = 0
    /\ output_size = 0
    /\ gs_state = "Idle"
    /\ pypdf_state = "Idle"
    /\ gs_runs = 0
    /\ pypdf_runs = 0
    /\ gs_cmd = NoCmd
    /\ raised = ""
    /\ stdout = <<>>
    /\ stderr = <<>>
    /\ exit_code = -1

BumpIdle ==
    /\ b_text = <<>>
    /\ b_text0 = <<>>
    /\ b_bump = ""
    /\ b_current = FALSE
    /\ b_pc = "off"
    /\ b_found = <<>>
    /\ b_stdout = <<>>
    /\ b_raised = ""
    /\ b_exit = -1

Init == PdfoInit /\ BumpIdle

\* line 88: click.Path(exists=True) rejects a missing input with a usage error
ClickParse ==
    /\ pc = "click"
    /\ IF Exists(input_file)
       THEN /\ pc' = "check_ext"
            /\ UNCHANGED <<stderr, exit_code>>
       ELSE /\ pc' = "done"
            /\ stderr' = Append(stderr, "Usage: path does not exist")
            /\ exit_code' = 2
    /\ UNCHANGED <<input_file, arg_output, output, quality, force, no_gs, fs, fs0, gs_present,
                   use_gs, input_size, output_size, gs_state, pypdf_state, gs_runs,
                   pypdf_runs, gs_cmd, raised, stdout>>
    /\ UNCHANGED bumpVars

\* lines 113-115
CheckExtension ==
    /\ pc = "check_ext"
    /\ IF IsPdf(input_file)
       THEN /\ pc' = "resolve"
            /\ UNCHANGED <<stderr, exit_code>>
       ELSE /\ pc' = "done"
            /\ stderr' = Append(stderr, "Error: Input must be a PDF file")
            /\ exit_code' = 1
    /\ UNCHANGED <<input_file, arg_output, output, quality, force, no_gs, fs, fs0, gs_present,
                   use_gs, input_size, output_size, gs_state, pypdf_state, gs_runs,
                   pypdf_runs, gs_cmd, raised, stdout>>
    /\ UNCHANGED bumpVars

\* lines 117-118
ResolveOutput ==
    /\ pc = "resolve"
    /\ output' = IF output = NoPath THEN DefaultOutput(input_file) ELSE output
    /\ pc' = "guard"
    /\ UNCHANGED <<input_file, arg_output, quality, force, no_gs, fs, fs0, gs_present,
                   use_gs, input_size, output_size, gs_state, pypdf_state, gs_runs,
                   pypdf_runs, gs_cmd, raised, stdout, stderr, exit_code>>
    /\ UNCHANGED bumpVars

\* line 120: output.exists() and not force
OutputBlockedInverted == Exists(output) /\ force
OutputBlocked == Exists(output) /\ ~force

\* lines 120-122
OverwriteGuard ==
    /\ pc = "guard"
    /\ IF OutputBlocked
       THEN /\ pc' = "done"
            /\ stderr' = Append(stderr, "Error: Output file already exists. Use -f to overwrite.")
            /\ exit_code' = 1
       ELSE /\ pc' = "select"
            /\ UNCHANGED <<stderr, exit_code>>
    /\ UNCHANGED <<input_file, arg_output, output, quality, force, no_gs, fs, fs0, gs_present,
                   use_gs, input_size, output_size, gs_state, pypdf_state, gs_runs,
                   pypdf_runs, gs_cmd, raised, stdout>>
    /\ UNCHANGED bumpVars

\* line 124: has_ghostscript() and not no_gs
UseGsIgnoringFlag(present) == present
UseGs(present) == present /\ ~no_gs

\* lines 124-130 with has_ghostscript (78-84): the probe succeeds or not
SelectBackend ==
    /\ pc = "select"
    /\ \E present \in BOOLEAN :
          /\ gs_present' = present
          /\ use_gs' = UseGs(present)
          /\ stdout' = stdout \o <<"Compressing",
                                   IF UseGs(present) THEN "Method: Ghostscript" ELSE "Method: pypdf">>
    /\ pc' = "stat"
    /\ UNCHANGED <<input_file, arg_output, output, quality, force, no_gs, fs, fs0,
                   input_size, output_size, gs_state, pypdf_state, gs_runs,
                   pypdf_runs, gs_cmd, raised, stderr, exit_code>>
    /\ UNCHANGED bumpVars

\* lines 132-133
StatInput ==
    /\ pc = "stat"
    /\ input_size' = fs[input_file].size
    /\ stdout' = Append(stdout, "Before")
    /\ pc' = "dispatch"
    /\ UNCHANGED <<input_file, arg_output, output, quality, force, no_gs, fs, fs0, gs_present,
                   use_gs, output_size, gs_state, pypdf_state, gs_runs,
                   pypdf_runs, gs_cmd, raised, stderr, exit_code>>
    /\ UNCHANGED bumpVars

\* lines 136-137 and 14-44: the command line is built and gs is started
StartGhostscript ==
    /\ pc = "dispatch"
    /\ use_gs
    /\ gs_cmd' = GsCommand(input_file, output, quality)
    /\ gs_state' = "Running"
    /\ gs_runs' = gs_runs + 1
    /\ pc' = "gs_running"
    /\ UNCHANGED <<input_file, arg_output, output, quality, force, no_gs, fs, fs0, gs_present,
                   use_gs, input_size, output_size, pypdf_state,
                   pypdf_runs, raised, stdout, stderr, exit_code>>
    /\ UNCHANGED bumpVars

\* lines 44-52: the subprocess exits. With status 0 it has written the output
\* file; with another status it has left the output path alone or has left a
\* truncated file there.
GhostscriptExits ==
    /\ pc = "gs_running"
    /\ \/ \E s \in 1..MaxSize :
             /\ fs' = [fs EXCEPT ![gs_cmd.outfile] = [by |-> "gs", size |-> s]]
             /\ output_size' = s
             /\ gs_state' = "Succeeded"
             /\ pc' = "report"
             /\ UNCHANGED raised
       \/ /\ fs' \in {fs, [fs EXCEPT ![gs_cmd.outfile] = Partial]}
          /\ raised' = "Ghostscript failed"
          /\ gs_state' = "Failed"
          /\ pc' = "except"
          /\ UNCHANGED output_size
    /\ UNCHANGED <<input_file, arg_output, output, quality, force, no_gs, fs0, gs_present,
                   use_gs, input_size, pypdf_state, gs_runs,
                   pypdf_runs, gs_cmd, stdout, stderr, exit_code>>
    /\ UNCHANGED bumpVars

\* lines 138-139 and 55-57: compress_with_pypdf is entered
StartPypdf ==
    /\ pc = "dispatch"
    /\ ~use_gs
    /\ pypdf_state' = "Running"
    /\ pypdf_runs' = pypdf_runs + 1
    /\ pc' = "pypdf_running"
    /\ UNCHANGED <<input_file, arg_output, output, quality, force, no_gs, fs, fs0, gs_present,
                   use_gs, input_size, output_size, gs_state, gs_runs,
                   gs_cmd, raised, stdout, stderr, exit_code>>
    /\ UNCHANGED bumpVars

\* lines 57-75: PdfReader raises (always on an empty file) and nothing is
\* written; or open/write of the output fails, before or after the file was
\* truncated; or the output file is written.
PypdfReturns ==
    /\ pc = "pypdf_running"
    /\ \/ /\ fs[input_file].size > 0
          /\ \E s \in 1..MaxSize :
                /\ fs' = [fs EXCEPT ![output] = [by |-> "pypdf", size |-> s]]
                /\ output_size' = s
          /\ pypdf_state' = "Succeeded"
          /\ pc' = "report"
          /\ UNCHANGED raised
       \/ /\ raised' = "pypdf: cannot read the input"
          /\ pypdf_state' = "Failed"
          /\ pc' = "except"
          /\ UNCHANGED <<fs, output_size>>
       \/ /\ fs[input_file].size > 0
          /\ fs' \in {fs, [fs EXCEPT ![output] = Partial]}
          /\ raised' = "pypdf: cannot write the output"
          /\ pypdf_state' = "Failed"
          /\ pc' = "except"
          /\ UNCHANGED output_size
    /\ UNCHANGED <<input_file, arg_output, output, quality, force, no_gs, fs0, gs_present,
                   use_gs, input_size, gs_state, gs_runs,
                   pypdf_runs, gs_cmd, stdout, stderr, exit_code>>
    /\ UNCHANGED bumpVars

\* lines 141-146: the reduction divides by input_size; ZeroDivisionError is an
\* Exception and goes to the handler of line 148. Otherwise the summary is
\* printed and main returns: exit code 0.
Report ==
    /\ pc = "report"
    /\ IF input_size = 0
       THEN /\ raised' = "division by zero"
            /\ pc' = "except"
            /\ UNCHANGED <<stdout, exit_code>>
       ELSE /\ stdout' = stdout \o <<"Success!", "After", "Saved", "File">>
            /\ exit_code' = 0
            /\ pc' = "done"
            /\ UNCHANGED raised
    /\ UNCHANGED <<input_file, arg_output, output, quality, force, no_gs, fs, fs0, gs_present,
                   use_gs, input_size, output_size, gs_state, pypdf_state, gs_runs,
                   pypdf_runs, gs_cmd, stderr>>
    /\ UNCHANGED bumpVars

\* lines 148-150
HandleException ==
    /\ pc = "except"
    /\ stderr' = Append(stderr, raised)
    /\ exit_code' = 1
    /\ pc' = "done"
    /\ UNCHANGED <<input_file, arg_output, output, quality, force, no_gs, fs, fs0, gs_present,
                   use_gs, input_size, output_size, gs_state, pypdf_state, gs_runs,
                   pypdf_runs, gs_cmd, raised, stdout>>
    /\ UNCHANGED bumpVars

Next ==
    \/ ClickParse
    \/ CheckExtension
    \/ ResolveOutput
    \/ OverwriteGuard
    \/ SelectBackend
    \/ StatInput
    \/ StartGhostscript
    \/ GhostscriptExits
    \/ StartPypdf
    \/ PypdfReturns
    \/ Report
    \/ HandleException

Spec == Init /\ [][Next]_vars

(***************************************************************************)
(* Properties of pdfo.py, stated over the arguments and the file system    *)
(* the process was started with.                                           *)
(***************************************************************************)
InputExists0 == fs0[input_file] # NoFile

\* the output path the run is about: -o, or the default derived from the input
Resolved == IF arg_output = NoPath THEN DefaultOutput(input_file) ELSE arg_output

Blocked0 == fs0[Resolved] # NoFile /\ ~force

PassesValidation == InputExists0 /\ IsPdf(input_file) /\ ~Blocked0

BackendRuns == gs_runs + pypdf_runs

BackendSucceeded == gs_state = "Succeeded" \/ pypdf_state = "Succeeded"

BackendFailed == gs_state = "Failed" \/ pypdf_state = "Failed"

OutputExistsMsg == "Error: Output file already exists. Use -f to overwrite."

\* C1, as stated (for the runs main is entered for, those whose input file
\* exists): in every run whose resolved output path exists and that has no -f,
\* the run ends with the output-exists error and exit code 1, no backend is
\* started and the file system is left as it was.
C1_AsStated ==
    (InputExists0 /\ Blocked0) =>
        /\ BackendRuns = 0
        /\ fs = fs0
        /\ pc = "done" => (exit_code = 1 /\ stderr = <<OutputExistsMsg>>)

\* C1, amended: in every run whose resolved output path exists and that has no
\* -f, no backend is ever started and the file system is left as it was; when
\* moreover the input exists and has a PDF extension, the run ends with the
\* output-exists error and exit code 1 (otherwise the earlier input check
\* reports its own error).
C1_OverwriteGuard ==
    Blocked0 =>
        /\ BackendRuns = 0
        /\ gs_state = "Idle" /\ pypdf_state = "Idle"
        /\ fs = fs0
        /\ (pc = "done" /\ InputExists0 /\ IsPdf(input_file)) =>
               (exit_code = 1 /\ stderr = <<OutputExistsMsg>> /\ stdout = <<>>)

C1_Witness ==
    /\ Blocked0 /\ InputExists0 /\ IsPdf(input_file)
    /\ pc = "done"
    /\ exit_code = 1

\* C2: a request that passes validation runs exactly one backend, never both:
\* Ghostscript if and only if the probe succeeded and --no-gs is not set,
\* pypdf otherwise.
C2_ExactlyOneBackend ==
    /\ BackendRuns <= 1
    /\ pc \in {"gs_running", "pypdf_running", "report", "except"} => BackendRuns = 1
    /\ (pc = "done" /\ PassesValidation) => BackendRuns = 1
    /\ gs_runs = 1 => (gs_present /\ ~no_gs)
    /\ pypdf_runs = 1 => ~(gs_present /\ ~no_gs)

C2_Witness ==
    /\ pc = "done"
    /\ gs_present /\ no_gs
    /\ pypdf_runs = 1 /\ gs_runs = 0
    /\ "Method: pypdf" \in {stdout[i] : i \in 1..Len(stdout)}

\* C3: the input file is never mutated, whatever the input path, the output
\* option and the force flag; the only file written is the output path.
C3_InputNeverMutated ==
    /\ fs[input_file] = fs0[input_file]
    /\ \A p \in DOMAIN fs : p # Resolved => fs[p] = fs0[p]

\* C4: a run on a zero-byte input never reaches the division by input_size of
\* line 141 (no ZeroDivisionError) and ends with the dedicated empty-input
\* error.
C4_EmptyInputRejected ==
    (PassesValidation /\ fs0[input_file].size = 0) =>
        /\ ~(pc = "report" /\ input_size = 0)
        /\ raised # "division by zero"
        /\ pc = "done" => stderr = <<"Error: Input file is empty">>

\* C5: the exit code is 0 exactly when validation passes and the selected
\* backend succeeds; a failed extension check, a refused overwrite or a failed
\* backend ends with exit code 1, a message on the error stream and no
\* success summary.
C5_ExitCode ==
    pc = "done" =>
        /\ exit_code = 0 <=> (PassesValidation /\ BackendSucceeded)
        /\ (InputExists0 /\ (~IsPdf(input_file) \/ Blocked0 \/ BackendFailed)) =>
               /\ exit_code = 1
               /\ stderr # <<>>
               /\ "Success!" \notin {stdout[i] : i \in 1..Len(stdout)}

\* C6: a quality level outside 1..4 is accepted without a validation error
\* and Ghostscript is invoked with the configuration of quality level 2.
C6_OutOfRangeIsLevel2 ==
    (gs_runs = 1 /\ quality \notin 1..4) =>
        /\ gs_cmd.preset = GsCommand(input_file, output, 2).preset
        /\ gs_cmd.resolution = GsCommand(input_file, output, 2).resolution

\* C7, as stated: levels 2, 3 and 4 share one preset, level 1 has another, and
\* the image resolution is lower for levels 3 and 4 than for levels 1 and 2.
C7_AsStated ==
    (gs_runs = 1 /\ quality \in 1..4) =>
        /\ quality \in 2..4 => gs_cmd.preset = GsCommand(input_file, output, 2).preset
        /\ quality = 1 => gs_cmd.preset # GsCommand(input_file, output, 2).preset
        /\ quality >= 3 => gs_cmd.resolution < GsCommand(input_file, output, 1).resolution
        /\ quality <= 2 => gs_cmd.resolution = GsCommand(input_file, output, 1).resolution

\* C7, amended: levels 1 to 4 map to one of three presets, "printer" for level
\* 1, "ebook" for level 2 and "screen" for levels 3 and 4, and to an image
\* resolution that is lower for levels 3 and 4 (150) than for levels 1 and 2
\* (200).
C7_ThreePresets ==
    (gs_runs = 1 /\ quality \in 1..4) =>
        /\ quality = 1 => gs_cmd.preset = "printer"
        /\ quality = 2 => gs_cmd.preset = "ebook"
        /\ quality \in 3..4 => gs_cmd.preset = "screen"
        /\ quality <= 2 => gs_cmd.resolution = 200
        /\ quality >= 3 => gs_cmd.resolution = 150

C7_Witness ==
    /\ gs_runs = 1
    /\ quality = 3
    /\ gs_cmd.preset = "screen"
    /\ gs_state = "Succeeded"

\* C8: without -o, the output path is in the input's directory and its name
\* is the input's name with "_compressed" inserted right before the last
\* extension, which is kept as written; it never equals the input path.
C8_DefaultOutput ==
    (arg_output = NoPath /\ output # NoPath) =>
        LET name == input_file.name
        IN  /\ output.dir = input_file.dir
            /\ output # input_file
            /\ \E i \in 1..(Len(name) - 1) :
                  /\ name[i + 1] = "."
                  /\ \A j \in (i + 2)..Len(name) : name[j] # "."
                  /\ output.name = SubSeq(name, 1, i) \o <<"_compressed">>
                                       \o SubSeq(name, i + 1, Len(name))

C8_Witness ==
    /\ arg_output = NoPath
    /\ input_file.name = <<"a", ".", "P", "D", "F">>
    /\ pc = "done"
    /\ exit_code = 0
    /\ fs[output].by \in {"gs", "pypdf"}

\* C10: the selected backend is started at most once, the other one is never
\* started after a failure, and a run that started a backend ends either with
\* the backend Succeeded and exit code 0 or with it Failed and exit code 1.
C10_SingleShot ==
    /\ gs_runs <= 1 /\ pypdf_runs <= 1 /\ BackendRuns <= 1
    /\ (pc = "done" /\ BackendRuns = 1) =>
           \/ BackendSucceeded /\ ~BackendFailed /\ exit_code = 0
           \/ BackendFailed /\ ~BackendSucceeded /\ exit_code = 1

\* The parts of C10 that do not involve the exit code. Each backend only moves
\* Idle -> Running -> Succeeded or Failed, and a backend is only started while
\* both are Idle (no restart, no retry, no fallback to the other backend).
SingleShotStep ==
    /\ gs_state' # gs_state =>
          \/ gs_state = "Idle" /\ gs_state' = "Running"
          \/ gs_state = "Running" /\ gs_state' \in {"Succeeded", "Failed"}
    /\ pypdf_state' # pypdf_state =>
          \/ pypdf_state = "Idle" /\ pypdf_state' = "Running"
          \/ pypdf_state = "Running" /\ pypdf_state' \in {"Succeeded", "Failed"}
    /\ (gs_runs' # gs_runs \/ pypdf_runs' # pypdf_runs) =>
          (gs_state = "Idle" /\ pypdf_state = "Idle" /\ BackendRuns = 0)

SingleShotSteps == [][SingleShotStep]_vars

\* main is sequential code: a step that can be taken is taken (a backend call
\* that returns being one of them).
FairSpec == Spec /\ WF_vars(Next)

\* Under FairSpec, a run that started a backend ends: the backend is Succeeded
\* or Failed and the process has exited with code 0 or 1.
StartedBackendEnds ==
    (BackendRuns = 1) ~>
        (pc = "done" /\ (BackendSucceeded \/ BackendFailed) /\ exit_code \in {0, 1})

(***************************************************************************)
(* scripts/bump_version.py.                                                *)
(***************************************************************************)
NL == [kind |-> "nl", v |-> <<>>, tight |-> FALSE]
SP == [kind |-> "sp", v |-> <<>>, tight |-> FALSE]
OtherChar == [kind |-> "x", v |-> <<>>, tight |-> FALSE]

\* the text version = "X.Y.Z" (tight: written version="X.Y.Z", without blanks)
VersionText(v, tight) == [kind |-> "ver", v |-> v, tight |-> tight]

Versions == {<<a, b, c>> : a \in 0..MaxVer, b \in 0..MaxVer, c \in 0..MaxVer}

IsSpace(tok) == tok.kind \in {"nl", "sp"}

\* (?m)^ : at the start of the text or right after a newline
AtLineStart(text, i) == i = 1 \/ text[i - 1].kind = "nl"

\* (?m)$ after token e: at the end of the text or right before a newline
AtLineEnd(text, e) == e = Len(text) \/ text[e + 1].kind = "nl"

\* line 10: where a match of VERSION_RE that starts at i ends, 0 when there is
\* none. The trailing \s* is greedy and \s matches newlines: the match runs to
\* the last place, within the white space that follows, where $ matches.
MatchEnd(text, i) ==
    LET ends == {e \in i..Len(text) :
                    /\ \A k \in (i + 1)..e : IsSpace(text[k])
                    /\ AtLineEnd(text, e)}
    IN  IF text[i].kind = "ver" /\ AtLineStart(text, i) /\ ends # {}
        THEN CHOOSE e \in ends : \A f \in ends : f <= e
        ELSE 0

\* VERSION_RE.search: the leftmost match, 0 when there is none
FirstMatch(text) ==
    LET starts == {i \in 1..Len(text) : MatchEnd(text, i) # 0}
    IN  IF starts = {} THEN 0 ELSE CHOOSE i \in starts : \A j \in starts : i <= j

\* lines 13-26
bump_version(version, bump) ==
    CASE bump = "major" -> <<version[1] + 1, 0, 0>>
      [] bump = "minor" -> <<version[1], version[2] + 1, 0>>
      [] bump = "patch" -> <<version[1], version[2], version[3] + 1>>

\* lines 29-33 (the caller handles FirstMatch(text) = 0: ValueError)
read_version(text) == text[FirstMatch(text)].v

\* line 38: VERSION_RE.subn(f'version = "{new_version}"', text, count=1)
Subn(text, new_version) ==
    LET i == FirstMatch(text)
    IN  SubSeq(text, 1, i - 1) \o <<VersionText(new_version, FALSE)>>
            \o SubSeq(text, MatchEnd(text, i) + 1, Len(text))

Shapes == {"nl", "sp", "x", "V", "W"}

Manifest(shape, v) ==
    [i \in 1..Len(shape) |->
        CASE shape[i] = "nl" -> NL
          [] shape[i] = "sp" -> SP
          [] shape[i] = "x" -> OtherChar
          [] shape[i] = "V" -> VersionText(v, FALSE)
          [] shape[i] = "W" -> VersionText(<<MaxVer, 0, MaxVer>>, TRUE)]

PdfoIdle ==
    /\ input_file = NoPath
    /\ arg_output = NoPath
    /\ output = NoPath
    /\ quality = 2
    /\ force = FALSE
    /\ no_gs = FALSE
    /\ fs = <<>>
    /\ fs0 = <<>>
    /\ pc = "off"
    /\ gs_present = FALSE
    /\ use_gs = FALSE
    /\ input_size = 0
    /\ output_size = 0
    /\ gs_state = "Idle"
    /\ pypdf_state = "Idle"
    /\ gs_runs = 0
    /\ pypdf_runs = 0
    /\ gs_cmd = NoCmd
    /\ raised = ""
    /\ stdout = <<>>
    /\ stderr = <<>>
    /\ exit_code = -1

BumpInit ==
    /\ \E n \in 0..MaxText : \E shape \in [1..n -> Shapes], v \in Versions :
          /\ b_text = Manifest(shape, v)
          /\ b_text0 = Manifest(shape, v)
    /\ b_bump \in {"", "major", "minor", "patch"}
    /\ b_current \in BOOLEAN
    /\ b_pc = "read"
    /\ b_found = <<>>
    /\ b_stdout = <<>>
    /\ b_raised = ""
    /\ b_exit = -1

\* lines 51-53: the text is read and searched; the ValueError of read_version
\* is not caught
ReadManifest ==
    /\ b_pc = "read"
    /\ IF FirstMatch(b_text) = 0
       THEN /\ b_raised' = "Could not find version in pyproject.toml"
            /\ b_exit' = 1
            /\ b_pc' = "done"
            /\ UNCHANGED b_found
       ELSE /\ b_found' = read_version(b_text)
            /\ b_pc' = "decide"
            /\ UNCHANGED <<b_raised, b_exit>>
    /\ UNCHANGED <<b_text, b_text0, b_bump, b_current, b_stdout>>
    /\ UNCHANGED pdfoVars

\* lines 55-57
PrintCurrent ==
    /\ b_pc = "decide"
    /\ b_current
    /\ b_stdout' = Append(b_stdout, b_found)
    /\ b_exit' = 0
    /\ b_pc' = "done"
    /\ UNCHANGED <<b_text, b_text0, b_bump, b_current, b_found, b_raised>>
    /\ UNCHANGED pdfoVars

\* lines 59-60
RequireBump ==
    /\ b_pc = "decide"
    /\ ~b_current
    /\ b_bump = ""
    /\ b_raised' = "--bump is required unless --current is set"
    /\ b_exit' = 1
    /\ b_pc' = "done"
    /\ UNCHANGED <<b_text, b_text0, b_bump, b_current, b_found, b_stdout>>
    /\ UNCHANGED pdfoVars

\* lines 62-65 with write_version (36-41): the file is read again, the first
\* match is replaced and the text written back
BumpAndWrite ==
    /\ b_pc = "decide"
    /\ ~b_current
    /\ b_bump # ""
    /\ LET new_version == bump_version(b_found, b_bump)
       IN  IF FirstMatch(b_text) = 0
           THEN /\ b_raised' = "Failed to update version in pyproject.toml"
                /\ b_exit' = 1
                /\ UNCHANGED <<b_text, b_stdout>>
           ELSE /\ b_text' = Subn(b_text, new_version)
                /\ b_stdout' = Append(b_stdout, new_version)
                /\ b_exit' = 0
                /\ UNCHANGED b_raised
    /\ b_pc' = "done"
    /\ UNCHANGED <<b_text0, b_bump, b_current, b_found>>
    /\ UNCHANGED pdfoVars

BumpNext ==
    \/ ReadManifest
    \/ PrintCurrent
    \/ RequireBump
    \/ BumpAndWrite

BumpStart == PdfoIdle /\ BumpInit

BumpSpec == BumpStart /\ [][BumpNext]_vars

\* the index of the newline that ends the line token i is on, Len + 1 when
\* the line is the last one and is not terminated
LineEnd(text, i) ==
    LET nls == {j \in i..Len(text) : text[j].kind = "nl"}
    IN  IF nls = {} THEN Len(text) + 1 ELSE CHOOSE j \in nls : \A k \in nls : j <= k

Bumped(v, bump) ==
    CASE bump = "major" -> <<v[1] + 1, 0, 0>>
      [] bump = "minor" -> <<v[1], v[2] + 1, 0>>
      [] bump = "patch" -> <<v[1], v[2], v[3] + 1>>

\* C9: with i the first matching version line of the manifest, holding X.Y.Z:
\* a bump prints and writes the bumped version, rewrites that one line and
\* leaves all the text before it and from the end of that line on unchanged;
\* without such a line the script fails with the version-not-found error and
\* the file is not modified; --current prints X.Y.Z and does not modify the
\* file.
C9_BumpRewritesOneLine ==
    b_pc = "done" =>
        LET i == FirstMatch(b_text0)
        IN  /\ i = 0 =>
                  /\ b_raised = "Could not find version in pyproject.toml"
                  /\ b_exit # 0
                  /\ b_text = b_text0
            /\ (i # 0 /\ b_current) =>
                  /\ b_stdout = <<b_text0[i].v>>
                  /\ b_exit = 0
                  /\ b_text = b_text0
            /\ (i # 0 /\ ~b_current /\ b_bump # "") =>
                  LET new == Bumped(b_text0[i].v, b_bump)
                  IN  /\ b_stdout = <<new>>
                      /\ b_exit = 0
                      /\ b_text = SubSeq(b_text0, 1, i - 1)
                                     \o <<VersionText(new, FALSE)>>
                                     \o SubSeq(b_text0, LineEnd(b_text0, i), Len(b_text0))
====
